---- MODULE Spec2Model ----
(***************************************************************************)
(* fokus: terminal stopwatch / countdown timer / daily focus history.      *)
(* Model of src/main.rs: `main` from the point where acquire_lock has      *)
(* succeeded, through terminal setup, the render/event loop and shutdown.  *)
(* Durations and instants are whole milliseconds.                          *)
(*                                                                         *)
(* One loop iteration is a render step (terminal.size, terminal.draw with  *)
(* its closure) followed by a poll step (event::poll, event::read and the  *)
(* key's handler); the clock may advance between any two steps.  Every     *)
(* call that ends in `?` may return Err, which ends main on the spot.      *)
(* _save_history may fail, leaving history.json untouched or truncated.    *)
(* fs::remove_file of the lock file is taken to succeed when it is called; *)
(* the backup copy made of an unparsable history.json is not modelled.     *)
(*                                                                         *)
(* Specifications:                                                         *)
(*   Spec         one instance, from the return of acquire_lock to exit;   *)
(*   HistorySpec  the history page on mappings a history file can hold;    *)
(*   FormatSpec   the stopwatch and timer displays over many durations;    *)
(*   TimerLiveSpec  the timer page, the loop being scheduled fairly;       *)
(*   LockSpec     several instances going through acquire_lock at once.    *)
(* NaiveDate::parse_from_str is a library function: it is modelled from    *)
(* chrono's behaviour for keys without sign or blanks (numeric fields take *)
(* one digit up to their width, so 2024-3-1 is the date 2024-03-01).       *)
(***************************************************************************)
EXTENDS Integers, Sequences, FiniteSets, TLC

(* ------------------------------ bounds --------------------------------- *)
\* The clock advances in steps of TickMs, at most MaxTicks times.
TickMs == 30500
MaxTicks == 4
\* The wall clock passes local midnight when the clock reaches this tick.
MidnightTick == 3
\* Timer totals explored: 1..MaxLowMinutes and (999-MaxHighGap)..999 minutes.
MaxLowMinutes == 2
MaxHighGap == 1
\* Rows the history widget may offer (widget height minus the 2 header rows).
MaxRows == 2
\* The largest number of keys in a mapping shown on the history page.
MaxViewKeys == 4
\* The durations formatted: FormatCount multiples of FormatStride milliseconds.
FormatStride == 61013
FormatCount == 150
\* The number of instances started against one lock file.
MaxInstances == 2

(* ------------------------- program constants --------------------------- *)
CONFIG_TIMER_MIN == 1
CONFIG_TIMER_MAX == 999
extra == 60 * 1000
timer_max == 60 * 999 * 1000
timer_min == 60 * 1 * 1000
NumPages == 3

(* ----------------------------- Duration -------------------------------- *)
as_secs(d) == d \div 1000
subsec_millis(d) == d % 1000

Digit(n) == <<"0", "1", "2", "3", "4", "5", "6", "7", "8", "9">>[n + 1]

RECURSIVE Decimal(_)
Decimal(n) == IF n < 10 THEN Digit(n) ELSE Decimal(n \div 10) \o Digit(n % 10)

\* Rust's {:02}: at least two digits, zero padded, never truncated.
Pad2(n) == IF n < 10 THEN "0" \o Decimal(n) ELSE Decimal(n)

\* A format whose minutes field is cut to two digits.
format_duration_wrapped(dur) ==
    Pad2((as_secs(dur) \div 60) % 100) \o ":" \o Pad2(as_secs(dur) % 60)
        \o "." \o Pad2(subsec_millis(dur) \div 10)

format_duration(dur) ==
    Pad2(as_secs(dur) \div 60) \o ":" \o Pad2(as_secs(dur) % 60)
        \o "." \o Pad2(subsec_millis(dur) \div 10)

\* The stopwatch page formats inline instead of calling format_duration.
stopwatch_format(elapsed) ==
    Pad2(as_secs(elapsed) \div 60) \o ":" \o Pad2(as_secs(elapsed) % 60)
        \o "." \o Pad2(subsec_millis(elapsed) \div 10)

(* --------------------------- history mapping --------------------------- *)
EmptyMap == [k \in {} |-> 0]

AddMinutesOverwriting(h, day, minutes) ==
    [k \in DOMAIN h \cup {day} |-> IF k = day THEN minutes ELSE h[k]]

\* *history.entry(today).or_insert(0) += minutes
AddMinutes(h, day, minutes) ==
    [k \in DOMAIN h \cup {day} |->
        IF k = day THEN (IF day \in DOMAIN h THEN h[day] ELSE 0) + minutes
        ELSE h[k]]

\* serde_json::to_string_pretty(map): the object's members.
ToJson(h) == {<<k, h[k]>> : k \in DOMAIN h}
\* serde_json::from_str::<HashMap<String, u64>>
FromJson(members) ==
    [k \in {m[1] : m \in members} |-> (CHOOSE m \in members : m[1] = k)[2]]

JsonFile(h) == [kind |-> "json", members |-> ToJson(h)]
GarbageFile == [kind |-> "garbage", members |-> {}]
AbsentFile == [kind |-> "absent", members |-> {}]

Day1 == "2024-02-29"
Day2 == "2024-03-01"


(* ------------------------------- state --------------------------------- *)
VARIABLES
    pc,                 \* position in main: start, render, poll, shutdown, exited
    exit_code,          \* "running", "ok" (main returned Ok), "err" (main returned Err)
    now,                \* the clock read by Instant::now() / Instant::elapsed()
    raw_mode,           \* terminal is in raw mode
    alt_screen,         \* terminal shows the alternate screen
    lock_exists,        \* the lock file written by acquire_lock exists
    history_file,       \* contents of history.json
    history,
    header_page_index,
    stopwatch_start, stopwatch_running, stopwatch_display,
    timer_total, timer_start, timer_running, timer_display,
    timer_logged, timer_done,
    history_offset,
    save_result,        \* io::Result of _save_history in the last program step
    save_failed,        \* some _save_history call has returned Err
    countdown_commits,  \* commits made by the timer since its last start
    release_calls,      \* calls of fs::remove_file(lock_path_buf)
    lock_file,          \* what the path of fokus.lock names (LockSpec)
    inst_pc,            \* each instance's position in acquire_lock and main (LockSpec)
    inst_seen           \* the PID each instance read from the lock file (LockSpec)

termVars == <<raw_mode, alt_screen, lock_exists, release_calls>>
\* The instances racing for the lock; Spec follows one instance from the
\* return of its acquire_lock on and leaves these alone.
lockVars == <<lock_file, inst_pc, inst_seen>>
swVars == <<stopwatch_start, stopwatch_running, stopwatch_display>>
timerVars == <<timer_total, timer_start, timer_running, timer_display,
               timer_logged, timer_done, countdown_commits>>
vars == <<pc, exit_code, now, raw_mode, alt_screen, lock_exists, history_file,
          history, header_page_index, stopwatch_start, stopwatch_running,
          stopwatch_display, timer_total, timer_start, timer_running,
          timer_display, timer_logged, timer_done, history_offset,
          save_result, save_failed, countdown_commits, release_calls,
          lock_file, inst_pc, inst_seen>>

(* ------------------------------ inputs --------------------------------- *)
\* Timer totals the model explores (both clamping ends of the range).
Explored(total) ==
    \/ total <= MaxLowMinutes * 60 * 1000
    \/ total >= timer_max - MaxHighGap * 60 * 1000

\* Config::load_or_create yields a value in [CONFIG_TIMER_MIN, CONFIG_TIMER_MAX].
DefaultMinutes ==
    {m \in CONFIG_TIMER_MIN..CONFIG_TIMER_MAX : Explored(m * 60 * 1000)}

StoredHistory == (Day1 :> 5) @@ ("2024-01-15" :> 3) @@ ("not-a-date" :> 2)
InitialFiles == {AbsentFile, GarbageFile, JsonFile(StoredHistory)}

SaveOutcomes == {"ok", "err", "err_truncated"}
StartupFailures == {"none", "load", "raw", "alt", "term"}
ShutdownFailures == {"none", "raw", "alt", "cursor"}

(* ------------------------------ clock ---------------------------------- *)
\* Local::now().format("%Y-%m-%d")
Today == IF now < MidnightTick * TickMs THEN Day1 ELSE Day2

\* Instant::elapsed
Elapsed(start) == now - start

(* ---------------------------- persistence ------------------------------ *)
\* _save_history(&map) with outcome r: fs::write replaces the whole file; a
\* failure leaves the file as it was or, past the truncation, unreadable.
SavedFile(h, r) ==
    CASE r = "ok" -> JsonFile(h)
      [] r = "err" -> history_file
      [] r = "err_truncated" -> GarbageFile

save_history(h, r) ==
    /\ history_file' = SavedFile(h, r)
    /\ save_result' = IF r = "ok" THEN "ok" ELSE "err"
    /\ save_failed' = (save_failed \/ r # "ok")

NoSave ==
    /\ save_result' = "none"
    /\ UNCHANGED <<history_file, save_failed>>

\* load_or_create_history: an absent or unparsable file is replaced by "{}".
LoadedHistory(file) ==
    IF file.kind = "json" THEN FromJson(file.members) ELSE EmptyMap

\* What a later load_or_create_history would return.
Persisted == LoadedHistory(history_file)

(* ------------------------------ lock file ------------------------------ *)
\* The instances; instance i runs as process i.
Instances == 1..MaxInstances

\* A PID that no live process has.
DeadPid == 0

\* The path names no file, or the file that `owner` created (NoOwner: it was
\* there before any instance started) and that holds nothing yet ("empty"),
\* text that is no number ("garbage") or a PID ("pid").
NoOwner == 0
AbsentLock == [exists |-> FALSE, owner |-> NoOwner, text |-> "empty", pid |-> DeadPid]
EmptyLock(owner) ==
    [exists |-> TRUE, owner |-> owner, text |-> "empty", pid |-> DeadPid]
GarbageLock ==
    [exists |-> TRUE, owner |-> NoOwner, text |-> "garbage", pid |-> DeadPid]
PidLock(owner, pid) == [exists |-> TRUE, owner |-> owner, text |-> "pid", pid |-> pid]

\* acquire_lock has returned Ok to instance 1 and no other instance runs.
LockHeld ==
    /\ lock_file = PidLock(1, 1)
    /\ inst_pc = [i \in Instances |-> IF i = 1 THEN "loop" ELSE "idle"]
    /\ inst_seen = [i \in Instances |-> DeadPid]

(* ------------------------------- Init ---------------------------------- *)
\* main after Config::load_or_create and a successful acquire_lock.
Init ==
    /\ pc = "start"
    /\ exit_code = "running"
    /\ now = 0
    /\ raw_mode = FALSE
    /\ alt_screen = FALSE
    /\ lock_exists = TRUE
    /\ history_file \in InitialFiles
    /\ history = EmptyMap
    /\ header_page_index = 0
    /\ stopwatch_start = 0
    /\ stopwatch_running = FALSE
    /\ stopwatch_display = "00:00.00"
    /\ \E m \in DefaultMinutes :
          /\ timer_total = m * 60 * 1000
          /\ timer_display = format_duration(m * 60 * 1000)
    /\ timer_start = 0
    /\ timer_running = FALSE
    /\ timer_logged = FALSE
    /\ timer_done = FALSE
    /\ history_offset = 0
    /\ save_result = "none"
    /\ save_failed = FALSE
    /\ countdown_commits = 0
    /\ release_calls = 0
    /\ LockHeld

(* ------------------------------ startup -------------------------------- *)
\* load_or_create_history()?, enable_raw_mode()?, EnterAlternateScreen?,
\* Terminal::new()? / clear()? / hide_cursor()?; `fail` is the step that
\* returns Err, if any.
Startup(fail) ==
    /\ pc = "start"
    /\ IF fail = "load"
       THEN UNCHANGED <<history, history_file>>
       ELSE /\ history' = LoadedHistory(history_file)
            /\ history_file' = JsonFile(LoadedHistory(history_file))
    /\ raw_mode' = (fail \in {"none", "alt", "term"})
    /\ alt_screen' = (fail \in {"none", "term"})
    /\ pc' = IF fail = "none" THEN "render" ELSE "exited"
    /\ exit_code' = IF fail = "none" THEN "running" ELSE "err"
    /\ save_result' = "none"
    /\ UNCHANGED <<now, lock_exists, release_calls, save_failed,
                   header_page_index, history_offset>>
    /\ UNCHANGED lockVars
    /\ UNCHANGED swVars
    /\ UNCHANGED timerVars

\* Time passes while the loop runs (during draw, or in event::poll).
Tick ==
    /\ pc \in {"render", "poll"}
    /\ now < MaxTicks * TickMs
    /\ now' = now + TickMs
    /\ UNCHANGED <<pc, exit_code, history, history_file, save_result,
                   save_failed, header_page_index, history_offset>>
    /\ UNCHANGED termVars
    /\ UNCHANGED lockVars
    /\ UNCHANGED swVars
    /\ UNCHANGED timerVars

(* --------------------------- render (draw) ----------------------------- *)
\* terminal.draw runs the closure and then flushes the frame; `drawn` is
\* FALSE when the flush returns Err, which `?` turns into a return from main.
AfterDraw(drawn) ==
    /\ pc' = IF drawn THEN "poll" ELSE "exited"
    /\ exit_code' = IF drawn THEN "running" ELSE "err"

\* match header_page_index { 0 => ... }
RenderStopwatch(drawn) ==
    /\ pc = "render"
    /\ header_page_index = 0
    /\ stopwatch_display' =
           IF stopwatch_running
           THEN stopwatch_format(Elapsed(stopwatch_start))
           ELSE stopwatch_display
    /\ AfterDraw(drawn)
    /\ NoSave
    /\ UNCHANGED <<now, history, header_page_index, history_offset,
                   stopwatch_start, stopwatch_running>>
    /\ UNCHANGED termVars
    /\ UNCHANGED lockVars
    /\ UNCHANGED timerVars

\* let remaining = if elapsed >= timer_total { ZERO } else { timer_total - elapsed }
Remaining(elapsed, total) == IF elapsed >= total THEN 0 ELSE total - elapsed

\* An expiry test with the logged guard the wrong way round.
ExpiredWhenLogged(remaining, logged) == remaining = 0 /\ logged

\* remaining == Duration::ZERO && !timer_logged
Expired(remaining, logged) == remaining = 0 /\ ~logged

\* let minutes = timer_total.as_secs() / 60
TimerMinutes(total) == as_secs(total) \div 60

\* The commit made at expiry: the `if minutes > 0 { ... }` block.
TimerCommit(r) ==
    IF TimerMinutes(timer_total) > 0
    THEN /\ history' = AddMinutes(history, Today, TimerMinutes(timer_total))
         /\ save_history(history', r)
         /\ countdown_commits' = countdown_commits + 1
    ELSE /\ NoSave
         /\ UNCHANGED <<history, countdown_commits>>

ExpireTimerStaysRunning(r) ==
    /\ timer_done' = TRUE
    /\ TimerCommit(r)
    /\ UNCHANGED <<timer_running, timer_logged>>

\* The body of `if remaining == Duration::ZERO && !timer_logged { ... }`
ExpireTimer(r) ==
    /\ timer_running' = FALSE
    /\ timer_done' = TRUE
    /\ TimerCommit(r)
    /\ timer_logged' = TRUE

\* match header_page_index { 1 => ... }
RenderTimer(r, drawn) ==
    /\ pc = "render"
    /\ header_page_index = 1
    /\ IF timer_running
       THEN /\ timer_display' =
                  format_duration(Remaining(Elapsed(timer_start), timer_total))
            /\ IF Expired(Remaining(Elapsed(timer_start), timer_total), timer_logged)
               THEN ExpireTimer(r)
               ELSE /\ NoSave
                    /\ UNCHANGED <<timer_running, timer_done, timer_logged,
                                   history, countdown_commits>>
       ELSE /\ NoSave
            /\ UNCHANGED <<timer_display, timer_running, timer_done,
                           timer_logged, history, countdown_commits>>
    /\ AfterDraw(drawn)
    /\ UNCHANGED <<now, header_page_index, history_offset, timer_total,
                   timer_start>>
    /\ UNCHANGED termVars
    /\ UNCHANGED lockVars
    /\ UNCHANGED swVars

(* ---------------------------- history view ---------------------------- *)
IsDigit(c) == c \in {"0", "1", "2", "3", "4", "5", "6", "7", "8", "9"}

DigitValue(c) ==
    CASE c = "0" -> 0 [] c = "1" -> 1 [] c = "2" -> 2 [] c = "3" -> 3
      [] c = "4" -> 4 [] c = "5" -> 5 [] c = "6" -> 6 [] c = "7" -> 7
      [] c = "8" -> 8 [] c = "9" -> 9

\* The number of digits a numeric field takes: the leading digits of s, at
\* most `width` of them (the field fails when there is none).
RECURSIVE LeadingDigits(_, _)
LeadingDigits(s, width) ==
    IF width = 0 \/ Len(s) = 0 THEN 0
    ELSE IF ~IsDigit(Head(s)) THEN 0
    ELSE 1 + LeadingDigits(Tail(s), width - 1)

RECURSIVE NumberValue(_)
NumberValue(s) ==
    IF Len(s) = 0 THEN 0
    ELSE NumberValue(SubSeq(s, 1, Len(s) - 1)) * 10
             + DigitValue(SubSeq(s, Len(s), Len(s)))

IsLeapYear(y) == (y % 4 = 0 /\ y % 100 # 0) \/ y % 400 = 0

DaysInMonth(y, m) ==
    IF m = 2 THEN (IF IsLeapYear(y) THEN 29 ELSE 28)
    ELSE IF m \in {4, 6, 9, 11} THEN 30 ELSE 31

NotADate == -1

\* NaiveDate::parse_from_str(k, "%Y-%m-%d") for keys without sign or blanks:
\* year of 1..4 digits, '-', month of 1..2 digits, '-', day of 1..2 digits,
\* nothing after it, and the three naming a day of the calendar.  A date is
\* its year*10000 + month*100 + day, which orders dates as NaiveDate does.
parse_from_str(k) ==
    LET ny == LeadingDigits(k, 4)
        s1 == SubSeq(k, ny + 1, Len(k))
    IN  IF ny = 0 \/ Len(s1) = 0 THEN NotADate
        ELSE IF Head(s1) # "-" THEN NotADate
        ELSE
    LET s2 == Tail(s1)
        nm == LeadingDigits(s2, 2)
        s3 == SubSeq(s2, nm + 1, Len(s2))
    IN  IF nm = 0 \/ Len(s3) = 0 THEN NotADate
        ELSE IF Head(s3) # "-" THEN NotADate
        ELSE
    LET s4 == Tail(s3)
        nd == LeadingDigits(s4, 2)
        y == NumberValue(SubSeq(k, 1, ny))
        m == NumberValue(SubSeq(s2, 1, nm))
        d == NumberValue(SubSeq(s4, 1, nd))
    IN  IF nd = 0 \/ nd # Len(s4) THEN NotADate
        ELSE IF m < 1 \/ m > 12 \/ d < 1 THEN NotADate
        ELSE IF d > DaysInMonth(y, m) THEN NotADate
        ELSE y * 10000 + m * 100 + d

\* The orders in which a loop may meet the elements of a set.
RECURSIVE IterationOrders(_)
IterationOrders(keys) ==
    IF keys = {} THEN {<<>>}
    ELSE UNION {{<<k>> \o p : p \in IterationOrders(keys \ {k})} : k \in keys}

\* for k in history.keys() { match NaiveDate::parse_from_str(k, ..) .. }:
\* each key with the outcome of its parse.
Scanned(h) == {<<parse_from_str(k), k>> : k \in DOMAIN h}

\* The orders in which history.keys() may yield the keys of h, each key with
\* the outcome of its parse.
KeyOrders(h) == IterationOrders(Scanned(h))

\* Ok(d) => parsed.push((d, k.clone()))
ParsedKeys(order) == SelectSeq(order, LAMBDA e : e[1] # NotADate)

\* Err(_) => unparsable.push(k.clone())
UnparsableKeys(order) == SelectSeq(order, LAMBDA e : e[1] = NotADate)

\* One step of the stable sort under |a, b| b.0.cmp(&a.0): e goes behind every
\* element whose date is not earlier than its own.
RECURSIVE InsertDescending(_, _)
InsertDescending(sorted, e) ==
    IF Len(sorted) = 0 THEN <<e>>
    ELSE IF Head(sorted)[1] >= e[1]
         THEN <<Head(sorted)>> \o InsertDescending(Tail(sorted), e)
         ELSE <<e>> \o sorted

\* parsed.sort_by(|a, b| b.0.cmp(&a.0))
RECURSIVE SortDescending(_)
SortDescending(parsed) ==
    IF Len(parsed) = 0 THEN <<>>
    ELSE InsertDescending(SortDescending(SubSeq(parsed, 1, Len(parsed) - 1)),
                          parsed[Len(parsed)])

\* NaiveDate::from_ymd_opt(1970,1,1), the date given to unparsable keys.
Epoch == 19700101

\* The view without parsed.sort_by: valid dates in iteration order.
HistoryViewUnsorted(order) ==
    LET unparsable == UnparsableKeys(order)
    IN  ParsedKeys(order)
            \o [i \in 1..Len(unparsable) |-> <<Epoch, unparsable[i][2]>>]

\* parsed, after parsed.extend(unparsable..): (date, key) in display order.
HistoryView(order) ==
    LET unparsable == UnparsableKeys(order)
    IN  SortDescending(ParsedKeys(order))
            \o [i \in 1..Len(unparsable) |-> <<Epoch, unparsable[i][2]>>]

\* history.get(key.as_str()).copied().unwrap_or(0)
MinutesOf(h, key) == IF key \in DOMAIN h THEN h[key] ELSE 0

\* The table rows, ignoring pagination: (key, minutes) in display order.
HistoryRows(h, order) ==
    LET view == HistoryView(order)
    IN  [i \in 1..Len(view) |-> <<view[i][2], MinutesOf(h, view[i][2])>>]

Min(a, b) == IF a <= b THEN a ELSE b
Max(a, b) == IF a >= b THEN a ELSE b

\* usize::saturating_sub
SatSub(a, b) == IF a >= b THEN a - b ELSE 0

\* A clamp that moves an offset past the last page back by one row a frame.
ClampOffsetStepwise(offset, total_rows, available_rows) ==
    IF total_rows <= available_rows THEN 0
    ELSE IF offset > SatSub(total_rows, available_rows) THEN offset - 1
         ELSE offset

\* A clamp that only resets the offset when everything fits.
ClampOffsetWhenShort(offset, total_rows, available_rows) ==
    IF total_rows <= available_rows THEN 0 ELSE offset

\* The clamp of history_offset made on every frame of the history page.
ClampOffset(offset, total_rows, available_rows) ==
    IF total_rows <= available_rows THEN 0
    ELSE IF offset > SatSub(total_rows, available_rows)
         THEN SatSub(total_rows, available_rows)
         ELSE offset

\* let end = (history_offset + available_rows).min(total_rows);
\* let visible = &parsed[history_offset..end]; and one table row per element.
VisibleRows(h, order, offset, available_rows) ==
    SubSeq(HistoryRows(h, order), offset + 1,
           Min(offset + available_rows, Len(HistoryView(order))))

\* match header_page_index { 2 => ... }; history.keys() yields the keys in
\* some order, and available_rows comes from the height of the widget, which
\* follows the terminal size.
RenderHistory ==
    /\ pc = "render"
    /\ header_page_index = 2
    /\ \E order \in KeyOrders(history) :
          LET total_rows == Len(HistoryView(order))
          IN  \E available_rows \in 0..MaxRows :
                 history_offset' =
                     ClampOffset(history_offset, total_rows, available_rows)
    /\ \E drawn \in BOOLEAN : AfterDraw(drawn)
    /\ NoSave
    /\ UNCHANGED <<now, history, header_page_index>>
    /\ UNCHANGED termVars
    /\ UNCHANGED lockVars
    /\ UNCHANGED swVars
    /\ UNCHANGED timerVars

\* terminal.size()?, a draw that fails before its closure runs,
\* event::poll(..)? or event::read()? returns Err: main returns at once.
LoopError ==
    /\ pc \in {"render", "poll"}
    /\ pc' = "exited"
    /\ exit_code' = "err"
    /\ NoSave
    /\ UNCHANGED <<now, history, header_page_index, history_offset>>
    /\ UNCHANGED termVars
    /\ UNCHANGED lockVars
    /\ UNCHANGED swVars
    /\ UNCHANGED timerVars

(* ---------------------------- key events ------------------------------- *)
\* event::poll timed out, or event::read returned an event that is no key.
PollNone ==
    /\ pc = "poll"
    /\ pc' = "render"
    /\ NoSave
    /\ UNCHANGED <<exit_code, now, history, header_page_index, history_offset>>
    /\ UNCHANGED termVars
    /\ UNCHANGED lockVars
    /\ UNCHANGED swVars
    /\ UNCHANGED timerVars

NavAllowedTimerOnly == ~timer_running

NavAllowedStopwatchOnly == ~stopwatch_running

\* if !timer_running && !stopwatch_running
NavAllowed == ~timer_running /\ ~stopwatch_running

NextPage(p) == (p + 1) % NumPages
PrevPage(p) == (p + NumPages - 1) % NumPages

\* KeyCode::Right | KeyCode::Char('l')
KeyRight ==
    /\ pc = "poll"
    /\ header_page_index' =
           IF NavAllowed THEN NextPage(header_page_index) ELSE header_page_index
    /\ pc' = "render"
    /\ NoSave
    /\ UNCHANGED <<exit_code, now, history, history_offset>>
    /\ UNCHANGED termVars
    /\ UNCHANGED lockVars
    /\ UNCHANGED swVars
    /\ UNCHANGED timerVars

\* KeyCode::Left | KeyCode::Char('h')
KeyLeft ==
    /\ pc = "poll"
    /\ header_page_index' =
           IF NavAllowed THEN PrevPage(header_page_index) ELSE header_page_index
    /\ pc' = "render"
    /\ NoSave
    /\ UNCHANGED <<exit_code, now, history, history_offset>>
    /\ UNCHANGED termVars
    /\ UNCHANGED lockVars
    /\ UNCHANGED swVars
    /\ UNCHANGED timerVars


IncreaseTotalUnclamped(total) == total + extra

\* (timer_total + extra).min(timer_max)
IncreaseTotal(total) == Min(total + extra, timer_max)
\* (timer_total.saturating_sub(extra)).max(timer_min)
DecreaseTotal(total) == Max(SatSub(total, extra), timer_min)

\* if !timer_running
AdjustAllowed == ~timer_running

\* KeyCode::Up | KeyCode::Char('k')
KeyUp ==
    /\ (header_page_index = 1 /\ AdjustAllowed) => Explored(IncreaseTotal(timer_total))
    /\ pc = "poll"
    /\ CASE header_page_index = 1 ->
              /\ timer_total' =
                     IF AdjustAllowed THEN IncreaseTotal(timer_total) ELSE timer_total
              /\ timer_display' =
                     IF AdjustAllowed THEN format_duration(timer_total')
                     ELSE timer_display
              /\ UNCHANGED history_offset
         [] header_page_index = 2 ->
              /\ history_offset' =
                     IF history_offset > 0 THEN history_offset - 1 ELSE history_offset
              /\ UNCHANGED <<timer_total, timer_display>>
         [] OTHER -> UNCHANGED <<timer_total, timer_display, history_offset>>
    /\ pc' = "render"
    /\ NoSave
    /\ UNCHANGED <<exit_code, now, history, header_page_index, timer_start,
                   timer_running, timer_logged, timer_done, countdown_commits>>
    /\ UNCHANGED termVars
    /\ UNCHANGED lockVars
    /\ UNCHANGED swVars

\* KeyCode::Down | KeyCode::Char('j'); history_offset.saturating_add(1)
KeyDown ==
    /\ (header_page_index = 1 /\ AdjustAllowed) => Explored(DecreaseTotal(timer_total))
    /\ pc = "poll"
    /\ CASE header_page_index = 1 ->
              /\ timer_total' =
                     IF AdjustAllowed THEN DecreaseTotal(timer_total) ELSE timer_total
              /\ timer_display' =
                     IF AdjustAllowed THEN format_duration(timer_total')
                     ELSE timer_display
              /\ UNCHANGED history_offset
         [] header_page_index = 2 ->
              /\ history_offset' = history_offset + 1
              /\ UNCHANGED <<timer_total, timer_display>>
         [] OTHER -> UNCHANGED <<timer_total, timer_display, history_offset>>
    /\ pc' = "render"
    /\ NoSave
    /\ UNCHANGED <<exit_code, now, history, header_page_index, timer_start,
                   timer_running, timer_logged, timer_done, countdown_commits>>
    /\ UNCHANGED termVars
    /\ UNCHANGED lockVars
    /\ UNCHANGED swVars

StopwatchMinutesRoundedUp(elapsed) == (as_secs(elapsed) + 59) \div 60

\* let minutes = (elapsed.as_secs() / 60) as u64
StopwatchMinutes(elapsed) == as_secs(elapsed) \div 60

StopwatchCommitWithoutSave(r) ==
    IF StopwatchMinutes(Elapsed(stopwatch_start)) > 0
    THEN /\ history' = AddMinutes(history, Today,
                                  StopwatchMinutes(Elapsed(stopwatch_start)))
         /\ NoSave
    ELSE /\ NoSave
         /\ UNCHANGED history

StopwatchCommitRolledBack(r) ==
    IF StopwatchMinutes(Elapsed(stopwatch_start)) > 0
    THEN /\ history' = IF r = "ok"
                       THEN AddMinutes(history, Today,
                                       StopwatchMinutes(Elapsed(stopwatch_start)))
                       ELSE history
         /\ save_history(history', r)
    ELSE /\ NoSave
         /\ UNCHANGED history

\* The commit made when the stopwatch stops: the `if minutes > 0 { ... }` block.
StopwatchCommit(r) ==
    IF StopwatchMinutes(Elapsed(stopwatch_start)) > 0
    THEN /\ history' = AddMinutes(history, Today,
                                  StopwatchMinutes(Elapsed(stopwatch_start)))
         /\ save_history(history', r)
    ELSE /\ NoSave
         /\ UNCHANGED history

\* KeyCode::Char(' ') => match header_page_index { 0 => ... }
SpaceStopwatch(r) ==
    /\ pc = "poll"
    /\ header_page_index = 0
    /\ IF stopwatch_running
       THEN /\ stopwatch_running' = FALSE
            /\ StopwatchCommit(r)
            /\ stopwatch_display' = "00:00.00"
            /\ UNCHANGED stopwatch_start
       ELSE /\ stopwatch_running' = TRUE
            /\ stopwatch_start' = now
            /\ NoSave
            /\ UNCHANGED <<history, stopwatch_display>>
    /\ pc' = "render"
    /\ UNCHANGED <<exit_code, now, header_page_index, history_offset>>
    /\ UNCHANGED termVars
    /\ UNCHANGED lockVars
    /\ UNCHANGED timerVars

\* Space on the timer page with a start that leaves timer_logged as it is.
SpaceTimerKeepsLogged ==
    /\ pc = "poll"
    /\ header_page_index = 1
    /\ IF timer_done
       THEN /\ timer_display' = format_duration(timer_total)
            /\ timer_done' = FALSE
            /\ UNCHANGED <<timer_running, timer_start, timer_logged,
                           countdown_commits>>
       ELSE IF timer_running
       THEN /\ timer_running' = FALSE
            /\ timer_display' = format_duration(timer_total)
            /\ UNCHANGED <<timer_done, timer_start, timer_logged,
                           countdown_commits>>
       ELSE /\ timer_running' = TRUE
            /\ timer_start' = now
            /\ countdown_commits' = 0
            /\ UNCHANGED <<timer_done, timer_display, timer_logged>>
    /\ pc' = "render"
    /\ NoSave
    /\ UNCHANGED <<exit_code, now, history, header_page_index, history_offset,
                   timer_total>>
    /\ UNCHANGED termVars
    /\ UNCHANGED lockVars
    /\ UNCHANGED swVars

\* Space on the timer page with a stop that leaves the remaining time shown.
SpaceTimerKeepsRemaining ==
    /\ pc = "poll"
    /\ header_page_index = 1
    /\ IF timer_done
       THEN /\ timer_display' = format_duration(timer_total)
            /\ timer_done' = FALSE
            /\ UNCHANGED <<timer_running, timer_start, timer_logged,
                           countdown_commits>>
       ELSE IF timer_running
       THEN /\ timer_running' = FALSE
            /\ UNCHANGED <<timer_display, timer_done, timer_start, timer_logged,
                           countdown_commits>>
       ELSE /\ timer_running' = TRUE
            /\ timer_start' = now
            /\ timer_logged' = FALSE
            /\ countdown_commits' = 0
            /\ UNCHANGED <<timer_done, timer_display>>
    /\ pc' = "render"
    /\ NoSave
    /\ UNCHANGED <<exit_code, now, history, header_page_index, history_offset,
                   timer_total>>
    /\ UNCHANGED termVars
    /\ UNCHANGED lockVars
    /\ UNCHANGED swVars

\* Space on the timer page with Done going straight to a new countdown.
SpaceTimerRestartsFromDone ==
    /\ pc = "poll"
    /\ header_page_index = 1
    /\ IF timer_running
       THEN /\ timer_running' = FALSE
            /\ timer_display' = format_duration(timer_total)
            /\ UNCHANGED <<timer_done, timer_start, timer_logged,
                           countdown_commits>>
       ELSE /\ timer_running' = TRUE
            /\ timer_done' = FALSE
            /\ timer_start' = now
            /\ timer_logged' = FALSE
            /\ countdown_commits' = 0
            /\ timer_display' = format_duration(timer_total)
    /\ pc' = "render"
    /\ NoSave
    /\ UNCHANGED <<exit_code, now, history, header_page_index, history_offset,
                   timer_total>>
    /\ UNCHANGED termVars
    /\ UNCHANGED lockVars
    /\ UNCHANGED swVars

\* KeyCode::Char(' ') => match header_page_index { 1 => ... }
SpaceTimer ==
    /\ pc = "poll"
    /\ header_page_index = 1
    /\ IF timer_done
       THEN /\ timer_display' = format_duration(timer_total)
            /\ timer_done' = FALSE
            /\ UNCHANGED <<timer_running, timer_start, timer_logged,
                           countdown_commits>>
       ELSE IF timer_running
       THEN /\ timer_running' = FALSE
            /\ timer_display' = format_duration(timer_total)
            /\ UNCHANGED <<timer_done, timer_start, timer_logged,
                           countdown_commits>>
       ELSE /\ timer_running' = TRUE
            /\ timer_start' = now
            /\ timer_logged' = FALSE
            /\ countdown_commits' = 0
            /\ UNCHANGED <<timer_done, timer_display>>
    /\ pc' = "render"
    /\ NoSave
    /\ UNCHANGED <<exit_code, now, history, header_page_index, history_offset,
                   timer_total>>
    /\ UNCHANGED termVars
    /\ UNCHANGED lockVars
    /\ UNCHANGED swVars

\* KeyCode::Char(' ') on the history page, and every other key: `_ => {}`
KeyOther ==
    /\ pc = "poll"
    /\ pc' = "render"
    /\ NoSave
    /\ UNCHANGED <<exit_code, now, history, header_page_index, history_offset>>
    /\ UNCHANGED termVars
    /\ UNCHANGED lockVars
    /\ UNCHANGED swVars
    /\ UNCHANGED timerVars

KeyQWithoutCommit(r) ==
    /\ pc = "poll"
    /\ NoSave
    /\ pc' = "shutdown"
    /\ UNCHANGED <<exit_code, now, history, header_page_index, history_offset>>
    /\ UNCHANGED termVars
    /\ UNCHANGED lockVars
    /\ UNCHANGED swVars
    /\ UNCHANGED timerVars

\* q that also commits the minutes of a running countdown.
KeyQCommitsTimer(r) ==
    /\ pc = "poll"
    /\ IF stopwatch_running
       THEN StopwatchCommit(r)
       ELSE IF timer_running /\ TimerMinutes(Elapsed(timer_start)) > 0
       THEN /\ history' = AddMinutes(history, Today,
                                     TimerMinutes(Elapsed(timer_start)))
            /\ save_history(history', r)
       ELSE /\ NoSave
            /\ UNCHANGED history
    /\ pc' = "shutdown"
    /\ UNCHANGED <<exit_code, now, header_page_index, history_offset>>
    /\ UNCHANGED termVars
    /\ UNCHANGED lockVars
    /\ UNCHANGED swVars
    /\ UNCHANGED timerVars

\* KeyCode::Char('q'): commit of a running stopwatch, then `break`
KeyQ(r) ==
    /\ pc = "poll"
    /\ IF stopwatch_running
       THEN StopwatchCommit(r)
       ELSE /\ NoSave
            /\ UNCHANGED history
    /\ pc' = "shutdown"
    /\ UNCHANGED <<exit_code, now, header_page_index, history_offset>>
    /\ UNCHANGED termVars
    /\ UNCHANGED lockVars
    /\ UNCHANGED swVars
    /\ UNCHANGED timerVars

(* ----------------------------- shutdown -------------------------------- *)
\* disable_raw_mode()?; execute!(.., LeaveAlternateScreen)?;
\* terminal.show_cursor()?; _save_history; fs::remove_file(lock_path_buf).
\* `fail` is the teardown step that returns Err, if any.
Shutdown(fail, r) ==
    /\ pc = "shutdown"
    /\ raw_mode' = (fail = "raw")
    /\ alt_screen' = (fail \in {"raw", "alt"})
    /\ IF fail = "none"
       THEN /\ save_history(history, r)
            /\ lock_exists' = FALSE
            /\ release_calls' = release_calls + 1
            /\ exit_code' = "ok"
       ELSE /\ NoSave
            /\ exit_code' = "err"
            /\ UNCHANGED <<lock_exists, release_calls>>
    /\ pc' = "exited"
    /\ UNCHANGED <<now, history, header_page_index, history_offset>>
    /\ UNCHANGED lockVars
    /\ UNCHANGED swVars
    /\ UNCHANGED timerVars

(* --------------------------- specification ----------------------------- *)
Next ==
    \/ \E fail \in StartupFailures : Startup(fail)
    \/ Tick
    \/ \E drawn \in BOOLEAN : RenderStopwatch(drawn)
    \/ \E r \in SaveOutcomes, drawn \in BOOLEAN : RenderTimer(r, drawn)
    \/ RenderHistory
    \/ LoopError
    \/ PollNone
    \/ KeyRight
    \/ KeyLeft
    \/ KeyUp
    \/ KeyDown
    \/ \E r \in SaveOutcomes : SpaceStopwatch(r)
    \/ SpaceTimer
    \/ KeyOther
    \/ \E r \in SaveOutcomes : KeyQ(r)
    \/ \E fail \in ShutdownFailures, r \in SaveOutcomes : Shutdown(fail, r)

Spec == Init /\ [][Next]_vars

(* ------------------ the timer page with a fair loop -------------------- *)
\* The loop is about to draw the timer page, the timer Idle at timer_min.
TimerInit ==
    /\ pc = "render"
    /\ exit_code = "running"
    /\ now = 0
    /\ raw_mode = TRUE
    /\ alt_screen = TRUE
    /\ lock_exists = TRUE
    /\ history \in {EmptyMap, StoredHistory}
    /\ history_file = JsonFile(history)
    /\ header_page_index = 1
    /\ stopwatch_start = 0
    /\ stopwatch_running = FALSE
    /\ stopwatch_display = "00:00.00"
    /\ timer_total = timer_min
    /\ timer_display = format_duration(timer_min)
    /\ timer_start = 0
    /\ timer_running = FALSE
    /\ timer_logged = FALSE
    /\ timer_done = FALSE
    /\ history_offset = 0
    /\ save_result = "none"
    /\ save_failed = FALSE
    /\ countdown_commits = 0
    /\ release_calls = 0
    /\ LockHeld

\* The loop on the timer page: frames, polls without an event, the keys the
\* page answers to, q and a failing step.
TimerNext ==
    \/ Tick
    \/ \E r \in SaveOutcomes, drawn \in BOOLEAN : RenderTimer(r, drawn)
    \/ LoopError
    \/ PollNone
    \/ KeyUp
    \/ KeyDown
    \/ SpaceTimer
    \/ KeyOther
    \/ \E r \in SaveOutcomes : KeyQ(r)

\* The process is scheduled: main does not stop between two steps of its
\* own, so a step of the program (every one of them moves pc, which the
\* passing of time does not) is eventually taken while one is possible.
LoopStep == TimerNext /\ pc' # pc

TimerLiveSpec == TimerInit /\ [][TimerNext]_vars /\ WF_vars(LoopStep)

(* ------------------- instances racing for the lock --------------------- *)
\* A lock file left behind by an earlier run: the PID of a process that is
\* gone, or text that is no PID.
LeftoverLocks ==
    {AbsentLock, PidLock(NoOwner, DeadPid), GarbageLock}

\* proc_path.exists(): a running process has this PID.
ProcExists(pid) ==
    /\ pid \in Instances
    /\ inst_pc[pid] \notin {"idle", "failed", "done"}

\* The variables of the instance followed by Spec stay as before its start.
MainIdle ==
    UNCHANGED <<pc, exit_code, now, raw_mode, alt_screen, lock_exists,
                history_file, history, header_page_index, history_offset,
                save_result, save_failed, release_calls, swVars, timerVars>>

\* Instance i is started: main runs up to the call of acquire_lock.
Launch(i) ==
    /\ inst_pc[i] = "idle"
    /\ inst_pc' = [inst_pc EXCEPT ![i] = "exists"]
    /\ UNCHANGED <<lock_file, inst_seen>>
    /\ MainIdle

\* if path.exists() { ... }
LockExists(i) ==
    /\ inst_pc[i] = "exists"
    /\ inst_pc' = [inst_pc EXCEPT ![i] = IF lock_file.exists THEN "read" ELSE "create"]
    /\ UNCHANGED <<lock_file, inst_seen>>
    /\ MainIdle

\* fs::read_to_string(&path) and s.trim().parse::<u32>(): on a PID go on to
\* the /proc check, on Err of either go on to remove_file.
LockRead(i) ==
    /\ inst_pc[i] = "read"
    /\ IF lock_file.exists /\ lock_file.text = "pid"
       THEN /\ inst_seen' = [inst_seen EXCEPT ![i] = lock_file.pid]
            /\ inst_pc' = [inst_pc EXCEPT ![i] = "proc"]
       ELSE /\ inst_pc' = [inst_pc EXCEPT ![i] = "remove"]
            /\ UNCHANGED inst_seen
    /\ UNCHANGED lock_file
    /\ MainIdle

\* if proc_path.exists() { return Err(AlreadyExists) } else { remove_file };
\* main answers the Err with std::process::exit(1).
LockProcCheck(i) ==
    /\ inst_pc[i] = "proc"
    /\ inst_pc' = [inst_pc EXCEPT ![i] =
                      IF ProcExists(inst_seen[i]) THEN "failed" ELSE "remove"]
    /\ UNCHANGED <<lock_file, inst_seen>>
    /\ MainIdle

\* let _ = fs::remove_file(&path): removes whatever the path names now.
LockRemove(i) ==
    /\ inst_pc[i] = "remove"
    /\ lock_file' = AbsentLock
    /\ inst_pc' = [inst_pc EXCEPT ![i] = "create"]
    /\ UNCHANGED inst_seen
    /\ MainIdle

\* OpenOptions::new().write(true).create_new(true).open(&path)?: fails when
\* the path names a file; main answers the Err with std::process::exit(1).
LockCreate(i) ==
    /\ inst_pc[i] = "create"
    /\ IF lock_file.exists
       THEN /\ inst_pc' = [inst_pc EXCEPT ![i] = "failed"]
            /\ UNCHANGED lock_file
       ELSE /\ inst_pc' = [inst_pc EXCEPT ![i] = "write"]
            /\ lock_file' = EmptyLock(i)
    /\ UNCHANGED inst_seen
    /\ MainIdle

\* let _ = write!(f, "{}", pid); Ok((f, path)): the PID goes to the file that
\* f has open, which the path may no longer name; then main enters the loop.
LockWrite(i) ==
    /\ inst_pc[i] = "write"
    /\ lock_file' = IF lock_file.exists /\ lock_file.owner = i
                    THEN PidLock(i, i) ELSE lock_file
    /\ inst_pc' = [inst_pc EXCEPT ![i] = "loop"]
    /\ UNCHANGED inst_seen
    /\ MainIdle

\* The instance leaves its loop by q: let _ = fs::remove_file(lock_path_buf).
InstanceQuit(i) ==
    /\ inst_pc[i] = "loop"
    /\ lock_file' = AbsentLock
    /\ inst_pc' = [inst_pc EXCEPT ![i] = "done"]
    /\ UNCHANGED inst_seen
    /\ MainIdle

\* No instance runs yet; the lock file may be a leftover.
LockInit ==
    /\ pc = "start"
    /\ exit_code = "running"
    /\ now = 0
    /\ raw_mode = FALSE
    /\ alt_screen = FALSE
    /\ lock_exists = FALSE
    /\ history_file = AbsentFile
    /\ history = EmptyMap
    /\ header_page_index = 0
    /\ stopwatch_start = 0
    /\ stopwatch_running = FALSE
    /\ stopwatch_display = "00:00.00"
    /\ timer_total = timer_min
    /\ timer_display = format_duration(timer_min)
    /\ timer_start = 0
    /\ timer_running = FALSE
    /\ timer_logged = FALSE
    /\ timer_done = FALSE
    /\ history_offset = 0
    /\ save_result = "none"
    /\ save_failed = FALSE
    /\ countdown_commits = 0
    /\ release_calls = 0
    /\ lock_file \in LeftoverLocks
    /\ inst_pc = [i \in Instances |-> "idle"]
    /\ inst_seen = [i \in Instances |-> DeadPid]

LockNext ==
    \/ \E i \in Instances : Launch(i)
    \/ \E i \in Instances : LockExists(i)
    \/ \E i \in Instances : LockRead(i)
    \/ \E i \in Instances : LockProcCheck(i)
    \/ \E i \in Instances : LockRemove(i)
    \/ \E i \in Instances : LockCreate(i)
    \/ \E i \in Instances : LockWrite(i)
    \/ \E i \in Instances : InstanceQuit(i)

LockSpec == LockInit /\ [][LockNext]_vars

(* --------------------- the displays on any duration -------------------- *)
\* The durations put on a display: the three of the specification's example
\* and multiples of FormatStride, which run through the centiseconds, the
\* seconds and past 100 minutes.
FormatDurations ==
    {0, 90500, 3599990} \cup {i * FormatStride : i \in 0..FormatCount}

\* The loop is about to draw a frame d milliseconds after the stopwatch was
\* started on page 0, or d milliseconds before a countdown of timer_max
\* started on page 1 expires.
FormatInit ==
    /\ pc = "render"
    /\ exit_code = "running"
    /\ raw_mode = TRUE
    /\ alt_screen = TRUE
    /\ lock_exists = TRUE
    /\ history = EmptyMap
    /\ history_file = JsonFile(EmptyMap)
    /\ stopwatch_start = 0
    /\ stopwatch_display = "00:00.00"
    /\ timer_start = 0
    /\ timer_logged = FALSE
    /\ timer_done = FALSE
    /\ history_offset = 0
    /\ save_result = "none"
    /\ save_failed = FALSE
    /\ countdown_commits = 0
    /\ release_calls = 0
    /\ LockHeld
    /\ \E d \in FormatDurations :
          \/ /\ header_page_index = 0
             /\ stopwatch_running = TRUE
             /\ timer_running = FALSE
             /\ timer_total = timer_min
             /\ timer_display = format_duration(timer_min)
             /\ now = d
          \/ /\ header_page_index = 1
             /\ stopwatch_running = FALSE
             /\ timer_running = TRUE
             /\ timer_total = timer_max
             /\ timer_display = format_duration(timer_max)
             /\ now = timer_max - d

FormatNext ==
    \/ \E drawn \in BOOLEAN : RenderStopwatch(drawn)
    \/ \E r \in SaveOutcomes, drawn \in BOOLEAN : RenderTimer(r, drawn)
    \/ PollNone

FormatSpec == FormatInit /\ [][FormatNext]_vars

(* ------------------- the history page on any mapping ------------------- *)
\* Keys a history file can hold: dates written by the program, a date
\* written without zero padding, and keys that are not dates.
ViewKeys ==
    {"2024-01-01", "2024-02-01", "2024-03-01", "2024-3-1", "not-a-date",
     "2023-02-29"}

ViewMinutes(k) ==
    CASE k = "2024-01-01" -> 5 [] k = "2024-02-01" -> 3 [] k = "2024-03-01" -> 10
      [] k = "2024-3-1" -> 4 [] k = "not-a-date" -> 7 [] OTHER -> 2

ViewHistories ==
    {[k \in keys |-> ViewMinutes(k)] :
        keys \in {ks \in SUBSET ViewKeys : Cardinality(ks) <= MaxViewKeys}}

\* The loop is about to draw the history page, the mapping having been loaded
\* from a history file holding any of ViewHistories.
HistoryInit ==
    /\ pc = "render"
    /\ exit_code = "running"
    /\ now = 0
    /\ raw_mode = TRUE
    /\ alt_screen = TRUE
    /\ lock_exists = TRUE
    /\ history \in ViewHistories
    /\ history_file = JsonFile(history)
    /\ header_page_index = 2
    /\ stopwatch_start = 0
    /\ stopwatch_running = FALSE
    /\ stopwatch_display = "00:00.00"
    /\ timer_total = timer_min
    /\ timer_display = format_duration(timer_min)
    /\ timer_start = 0
    /\ timer_running = FALSE
    /\ timer_logged = FALSE
    /\ timer_done = FALSE
    /\ history_offset = 0
    /\ save_result = "none"
    /\ save_failed = FALSE
    /\ countdown_commits = 0
    /\ release_calls = 0
    /\ LockHeld

HistoryNext ==
    \/ RenderHistory
    \/ PollNone
    \/ KeyUp
    \/ KeyDown

HistorySpec == HistoryInit /\ [][HistoryNext]_vars

(* ======================================================================= *)
(*                               claims                                    *)
(* ======================================================================= *)
\* The minutes stored for day d (0 when d has no entry).
Entry(h, d) == IF d \in DOMAIN h THEN h[d] ELSE 0

\* h2 is h with `minutes` added to day d's entry and nothing else changed.
AddedTo(h, h2, d, minutes) ==
    /\ DOMAIN h2 = DOMAIN h \cup {d}
    /\ h2[d] = Entry(h, d) + minutes
    /\ \A k \in DOMAIN h \ {d} : h2[k] = h[k]

\* A frame was drawn: the draw closure ran and the loop went on to poll.
RenderTick == pc = "render" /\ pc' = "poll"
\* A key event was dispatched and the loop went on to the next frame.
KeyStep == pc = "poll" /\ pc' = "render"

\* C1 (as stated): once the time elapsed while running has reached
\* total_duration, the timer leaves Running only by becoming Done with exactly
\* one commit for that countdown (never zero commits).
C1_Original ==
    [][(timer_running /\ Elapsed(timer_start) >= timer_total /\ ~timer_running')
           => (timer_done' /\ countdown_commits' = 1)]_vars

\* C1 (amended): a render tick that finds the running timer with elapsed >=
\* total_duration makes it Done (running=false, done=true) and adds
\* total_duration/60 minutes to today's entry; no countdown ever commits twice,
\* a Done timer has committed exactly once, and later render ticks of a Done
\* timer leave the history alone.
C1_ExpiryCommitsExactlyOnce ==
    /\ [](countdown_commits <= 1 /\ (timer_done => countdown_commits = 1))
    /\ [][(RenderTick /\ header_page_index = 1 /\ timer_running
              /\ Elapsed(timer_start) >= timer_total)
            => /\ ~timer_running'
               /\ timer_done'
               /\ AddedTo(history, history', Today, timer_total \div 60000)
               /\ countdown_commits' = countdown_commits + 1]_vars
    /\ [][(RenderTick /\ ~timer_running) => history' = history]_vars

\* A frame drawn after the expiry was committed: the timer is Done, one minute
\* was added to the stored 5, and this frame committed nothing.
C1_Witness ==
    /\ pc = "poll"
    /\ header_page_index = 1
    /\ timer_done
    /\ countdown_commits = 1
    /\ save_result = "none"
    /\ Entry(history, Day1) = 6

\* C2: stopping a running stopwatch with space on page 0 after elapsed time e
\* adds exactly floor(e_seconds/60) minutes to today's entry and calls save
\* when that is >= 1; when e < 60s the mapping and the file are untouched and
\* no save is made. Either way the stopwatch is Idle and shows 00:00.00.
C2_StopwatchStopCommitsFloorMinutes ==
    [][(KeyStep /\ header_page_index = 0 /\ stopwatch_running /\ ~stopwatch_running')
         => LET e_seconds == (now - stopwatch_start) \div 1000
                minutes == e_seconds \div 60
            IN  /\ minutes >= 1 =>
                       /\ AddedTo(history, history', Today, minutes)
                       /\ save_result' # "none"
                /\ e_seconds < 60 =>
                       /\ history' = history
                       /\ history_file' = history_file
                       /\ save_result' = "none"
                /\ stopwatch_display' = "00:00.00"]_vars

\* The stopwatch was stopped past midnight, at clock 91.5s, on an empty history: one minute was
\* committed for the day and saved.
C2_Witness ==
    /\ pc = "render"
    /\ header_page_index = 0
    /\ ~stopwatch_running
    /\ stopwatch_display = "00:00.00"
    /\ save_result = "ok"
    /\ now = 3 * TickMs
    /\ history = (Day2 :> 1)

C4_PageNavigation ==
    /\ [](header_page_index \in {0, 1, 2})
    /\ [](\A p \in {0, 1, 2} : PrevPage(NextPage(p)) = p /\ NextPage(PrevPage(p)) = p)
    /\ [][header_page_index' # header_page_index
            => KeyStep /\ ~stopwatch_running /\ ~timer_running]_vars
    /\ [][KeyRight => header_page_index' =
                IF stopwatch_running \/ timer_running THEN header_page_index
                ELSE (header_page_index + 1) % 3]_vars
    /\ [][KeyLeft => header_page_index' =
                IF stopwatch_running \/ timer_running THEN header_page_index
                ELSE (header_page_index + 2) % 3]_vars

\* The history page was reached (right from page 1, or left from page 0,
\* wrapping) and drawn.
C4_Witness ==
    /\ pc = "poll"
    /\ header_page_index = 2
    /\ now > 0

\* C5: total_duration is always a whole number of minutes within
\* [60s, 59940s]; an up or down key on the timer page leaves it unchanged
\* while the timer runs, and otherwise sets it to min(total+60s, 59940s)
\* or max(total-60s, 60s).
C5_TimerTotalClamped ==
    /\ [](timer_total % 60000 = 0 /\ timer_total >= 60000 /\ timer_total <= 59940000)
    /\ [][(KeyUp /\ header_page_index = 1)
            => timer_total' =
                 IF timer_running THEN timer_total
                 ELSE IF timer_total + 60000 <= 59940000
                      THEN timer_total + 60000 ELSE 59940000]_vars
    /\ [][(KeyDown /\ header_page_index = 1)
            => timer_total' =
                 IF timer_running THEN timer_total
                 ELSE IF timer_total - 60000 >= 60000
                      THEN timer_total - 60000 ELSE 60000]_vars
    /\ [][timer_total' # timer_total => KeyStep /\ header_page_index = 1]_vars

\* A countdown of the maximal 999 minutes is running and shown: up/down were
\* available before it started and are dead now.
C5_Witness ==
    /\ pc = "poll"
    /\ header_page_index = 1
    /\ timer_running
    /\ timer_total = 59940000
    /\ timer_display = "998:29.50"

\* C6 (as stated): in the Done state an up or down key on the timer page
\* changes neither total_duration nor the timer display.
C6_Original ==
    [][(timer_done /\ ~timer_running /\ header_page_index = 1 /\ (KeyUp \/ KeyDown))
         => (timer_total' = timer_total /\ timer_display' = timer_display)]_vars

\* C7 (as stated): whenever the run ends from the loop or from the teardown,
\* the terminal is back in its prior mode: raw mode disabled, alternate screen
\* left.
C7_Original ==
    [][(pc \in {"render", "poll", "shutdown"} /\ pc' = "exited")
         => (~raw_mode' /\ ~alt_screen')]_vars

\* C8 (as stated): whenever the run ends from the loop or from the teardown,
\* the lock file has been removed, by exactly one release call.
C8_Original ==
    [][(pc \in {"render", "poll", "shutdown"} /\ pc' = "exited")
         => (~lock_exists' /\ release_calls' = 1)]_vars

\* C9: every step of the running program that changes the history calls save
\* in that same step, and a completed shutdown calls save once more; so, as
\* long as no save has failed, the persisted mapping equals the in-memory
\* history at every loop-iteration boundary, at shutdown and after it.
C9_PersistedFollowsHistory ==
    /\ [][(pc # "start" /\ history' # history) => save_result' # "none"]_vars
    /\ [][(pc = "shutdown" /\ exit_code' = "ok") => save_result' # "none"]_vars
    /\ []((~save_failed
            /\ (pc \in {"render", "poll", "shutdown"}
                   \/ (pc = "exited" /\ exit_code = "ok")))
           => Persisted = history)

\* A timer expiry was committed and saved, no save has failed: the file holds
\* the incremented entry.
C9_Witness ==
    /\ pc = "poll"
    /\ timer_done
    /\ save_result = "ok"
    /\ ~save_failed
    /\ Entry(history, Day1) = 6
    /\ Entry(Persisted, Day1) = 6

\* C10: a save that fails at a commit point is not fatal. The stopwatch stop
\* keeps the increment in memory, goes Idle with a reset display and the loop
\* goes on to the next frame; the timer expiry keeps the increment and becomes
\* Done; and every successful save, at a later commit or at shutdown, leaves
\* the file holding the whole in-memory mapping.
C10_SaveFailureNonFatal ==
    /\ [][(pc = "poll" /\ header_page_index = 0 /\ stopwatch_running
              /\ ~stopwatch_running' /\ save_result' = "err")
            => /\ AddedTo(history, history', Today,
                          ((now - stopwatch_start) \div 1000) \div 60)
               /\ stopwatch_display' = "00:00.00"
               /\ pc' = "render"
               /\ exit_code' = "running"]_vars
    /\ [][(pc = "render" /\ pc' # "render" /\ save_result' = "err")
            => /\ AddedTo(history, history', Today, timer_total \div 60000)
               /\ ~timer_running'
               /\ timer_done'
               /\ timer_logged']_vars
    /\ [][save_result' = "ok" => Persisted' = history']_vars

\* A commit whose save failed, then a normal shutdown whose save succeeded:
\* the file holds the committed minute.
C10_Witness ==
    /\ pc = "exited"
    /\ exit_code = "ok"
    /\ save_failed
    /\ save_result = "ok"
    /\ Entry(history, Day1) = 6
    /\ Persisted = history

\* C11: across the steps of the running program no key of the history is ever
\* removed and no value ever decreases; the only change a step makes is to add
\* a positive number of minutes to today's entry, all other entries kept.
C11_HistoryMonotone ==
    [][pc # "start"
         => /\ \A d \in DOMAIN history :
                  d \in DOMAIN history' /\ history'[d] >= history[d]
            /\ history' # history
                  => /\ Today \in DOMAIN history'
                     /\ history'[Today] > Entry(history, Today)
                     /\ AddedTo(history, history', Today,
                                history'[Today] - Entry(history, Today))]_vars

\* Two commits on both sides of midnight: the stored 5 minutes of the first
\* day grew to 6 and the second day got an entry of its own.
C11_Witness ==
    /\ pc \in {"render", "poll"}
    /\ Entry(history, Day1) = 6
    /\ Entry(history, Day2) = 1
    /\ Entry(history, "2024-01-15") = 3
    /\ Entry(history, "not-a-date") = 2

(* ------------------------------- C12 ----------------------------------- *)
\* The position of key k in the iteration order.
PositionIn(order, k) == CHOOSE i \in 1..Len(order) : order[i][2] = k

\* The view is a permutation of the mapping's keys, with every key that fails
\* to parse behind every key that parses, and each row showing the stored
\* minutes of its key.
ViewShape(h, order) ==
    LET view == HistoryView(order)
        rows == HistoryRows(h, order)
    IN  /\ Len(view) = Cardinality(DOMAIN h)
        /\ {rows[i][1] : i \in 1..Len(rows)} = DOMAIN h
        /\ \A i, j \in 1..Len(rows) :
              (i < j /\ parse_from_str(rows[j][1]) # NotADate)
                  => parse_from_str(rows[i][1]) # NotADate
        /\ Len(rows) = Len(view)
        /\ \A i \in 1..Len(rows) : rows[i][2] = h[rows[i][1]]

\* C12 as stated: for every history mapping the history page's rows are a
\* permutation of the keys, valid dates first in STRICTLY descending date
\* order, unparsable keys after them, each row with its stored minutes.
C12_Original ==
    \A order \in KeyOrders(history) :
        LET rows == HistoryRows(history, order)
        IN  /\ ViewShape(history, order)
            /\ \A i, j \in 1..Len(rows) :
                  (i < j /\ parse_from_str(rows[j][1]) # NotADate)
                      => parse_from_str(rows[i][1]) > parse_from_str(rows[j][1])

\* C12 amended: for every history mapping and every iteration order of its
\* keys, the rows are a permutation of the keys; the keys that parse as dates
\* come first, most recent first, two keys that parse to the same date (such
\* as 2024-03-01 and 2024-3-1) staying in iteration order; the keys that fail
\* to parse come after all of them; each row shows its key's stored minutes.
C12_ViewOrder ==
    \A order \in KeyOrders(history) :
        LET rows == HistoryRows(history, order)
        IN  /\ ViewShape(history, order)
            /\ \A i, j \in 1..Len(rows) :
                  (i < j /\ parse_from_str(rows[j][1]) # NotADate)
                      => \/ parse_from_str(rows[i][1]) > parse_from_str(rows[j][1])
                         \/ /\ parse_from_str(rows[i][1]) = parse_from_str(rows[j][1])
                            /\ PositionIn(order, rows[i][1])
                                 < PositionIn(order, rows[j][1])

\* The history page was drawn for the mapping of the example plus a key that
\* is no date, and from an unsorted iteration order the rows come out as
\* 2024-03-01, 2024-02-01, 2024-01-01, not-a-date.
C12_Witness ==
    /\ pc = "poll"
    /\ header_page_index = 2
    /\ DOMAIN history = {"2024-01-01", "2024-03-01", "2024-02-01", "not-a-date"}
    /\ \E order \in KeyOrders(history) :
          /\ <<order[1][2], order[2][2], order[3][2], order[4][2]>>
                = <<"not-a-date", "2024-01-01", "2024-03-01", "2024-02-01">>
          /\ HistoryRows(history, order)
                = << <<"2024-03-01", 10>>, <<"2024-02-01", 3>>,
                     <<"2024-01-01", 5>>, <<"not-a-date", 7>> >>

(* ------------------------------- C13 ----------------------------------- *)
AllDigits(s) == \A i \in 1..Len(s) : IsDigit(SubSeq(s, i, i))

\* text reads as MM:SS.CC for the duration d: a minutes field of at least two
\* digits (more only when the number needs them) holding floor(d/60000), then
\* ':', two digits of seconds holding floor(d/1000) mod 60, '.', and two
\* digits of centiseconds holding floor((d mod 1000)/10).
ReadsAs(text, d) ==
    LET n == Len(text)
        mm == SubSeq(text, 1, n - 6)
        ss == SubSeq(text, n - 4, n - 3)
        cc == SubSeq(text, n - 1, n)
    IN  /\ n >= 8
        /\ SubSeq(text, n - 5, n - 5) = ":"
        /\ SubSeq(text, n - 2, n - 2) = "."
        /\ AllDigits(mm) /\ AllDigits(ss) /\ AllDigits(cc)
        /\ Len(mm) = 2 \/ Head(mm) # "0"
        /\ NumberValue(mm) = d \div 60000
        /\ NumberValue(ss) = (d \div 1000) % 60
        /\ NumberValue(ss) < 60
        /\ NumberValue(cc) = (d % 1000) \div 10
        /\ NumberValue(cc) < 100

\* C13: a frame drawn d ms into a stopwatch run, or d ms before a countdown
\* ends, shows d as zero-padded MM:SS.CC with MM = floor(d/60000) in full,
\* SS = floor(d/1000) mod 60 < 60 and CC = floor((d mod 1000)/10) < 100; the
\* stopwatch's text is the one format_duration gives for the same time; and
\* 0s, 90.5s and 3599.99s read 00:00.00, 01:30.50 and 59:59.99.
C13_FormatDuration ==
    /\ (pc = "poll" /\ header_page_index = 0 /\ stopwatch_running)
          => /\ ReadsAs(stopwatch_display, now - stopwatch_start)
             /\ stopwatch_display = format_duration(now - stopwatch_start)
    /\ (pc = "poll" /\ header_page_index = 1
           /\ now - timer_start <= timer_total /\ (timer_running \/ timer_done))
          => ReadsAs(timer_display, timer_total - (now - timer_start))
    /\ format_duration(0) = "00:00.00"
    /\ format_duration(90500) = "01:30.50"
    /\ format_duration(3599990) = "59:59.99"

\* A frame of the stopwatch page drawn 150 * 61013 ms into the run shows the
\* minutes in three digits.
C13_Witness ==
    /\ pc = "poll"
    /\ header_page_index = 0
    /\ stopwatch_running
    /\ now - stopwatch_start = 9151950
    /\ stopwatch_display = "152:31.95"

(* ------------------------------- C14 ----------------------------------- *)
\* C14 as stated: whatever the interleaving of the file-system steps of the
\* instances started against one lock file (existence check, PID read,
\* liveness check, stale-lock removal, exclusive create), at most one
\* instance runs the main loop at a time.
C14_Original == Cardinality({i \in Instances : inst_pc[i] = "loop"}) <= 1

(* ------------------------------- C15 ----------------------------------- *)
\* C15: a frame of the history page drawn with available_rows rows leaves the
\* offset in [0, max(0, total_rows - available_rows)], whatever it was before;
\* the slice [offset, min(offset + available_rows, total_rows)) is then a
\* valid range holding exactly min(total_rows, available_rows) rows, whatever
\* the order of the rows.  On that page the down key adds one to the offset
\* without a bound and the up key takes one off, never going below 0.
C15_OffsetClamped ==
    /\ [][/\ \A available_rows \in 0..MaxRows :
                (/\ RenderTick
                 /\ header_page_index = 2
                 /\ history_offset' = ClampOffset(history_offset,
                                                  Cardinality(DOMAIN history),
                                                  available_rows))
                   => LET total_rows == Cardinality(DOMAIN history)
                          end == Min(history_offset' + available_rows, total_rows)
                      IN  /\ history_offset' >= 0
                          /\ history_offset' <= Max(0, total_rows - available_rows)
                          /\ history_offset' <= end /\ end <= total_rows
                          /\ end - history_offset' = Min(total_rows, available_rows)
          /\ (KeyDown /\ header_page_index = 2)
                => history_offset' = history_offset + 1
          /\ (KeyUp /\ header_page_index = 2)
                => /\ history_offset' >= 0
                   /\ history_offset' = Max(0, history_offset - 1)]_vars
    /\ [](\A available_rows \in 0..MaxRows :
             (/\ pc = "poll"
              /\ header_page_index = 2
              /\ history_offset
                   <= Max(0, Cardinality(DOMAIN history) - available_rows))
                => \A order \in KeyOrders(history) :
                      Len(VisibleRows(history, order, history_offset,
                                      available_rows))
                          = Min(Cardinality(DOMAIN history), available_rows))

\* The down key pushed the offset past the last page of a four-row history
\* and the next frame, MaxRows rows high, brought it back to 4 - MaxRows.
C15_Witness ==
    /\ pc = "poll"
    /\ header_page_index = 2
    /\ Cardinality(DOMAIN history) = 4
    /\ history_offset = 4 - MaxRows

(* ------------------------------- C16 ----------------------------------- *)
\* C16: space on the timer page while the timer runs and has not expired
\* makes it Idle (not running, not done), shows the full total_duration
\* again, and changes neither the history mapping, nor the persisted
\* mapping, nor total_duration, however long the countdown has run.
C16_StopBeforeExpiry ==
    [][(SpaceTimer /\ timer_running /\ Elapsed(timer_start) < timer_total)
          => /\ ~timer_running'
             /\ ~timer_done'
             /\ timer_display' = format_duration(timer_total)
             /\ history' = history
             /\ history_file' = history_file
             /\ Persisted' = Persisted
             /\ timer_total' = timer_total]_vars

\* A countdown of two minutes started at the first tick was stopped before
\* its expiry, and the clock is now 61 s past its start: Idle, nothing
\* logged, the display back at 02:00.00, the history as loaded.
C16_Witness ==
    /\ pc = "render"
    /\ header_page_index = 1
    /\ ~timer_running /\ ~timer_done /\ ~timer_logged
    /\ timer_total = 2 * timer_min
    /\ timer_start = TickMs
    /\ now = 3 * TickMs
    /\ timer_display = "02:00.00"
    /\ history = LoadedHistory(JsonFile(StoredHistory))

(* ------------------------------- C17 ----------------------------------- *)
\* C17: space on the timer page in Done acknowledges: done becomes false, the
\* display shows the full total_duration, the timer does not start, and the
\* history is unchanged.  The timer starts running only by space in Idle,
\* which stamps the start with the current time and clears logged, so that
\* the expiry of the new countdown commits again.
C17_AcknowledgeThenRestart ==
    [][/\ (SpaceTimer /\ timer_done)
             => /\ ~timer_done'
                /\ ~timer_running'
                /\ timer_display' = format_duration(timer_total)
                /\ history' = history
                /\ history_file' = history_file
       /\ (~timer_running /\ timer_running')
             => /\ SpaceTimer
                /\ ~timer_done
                /\ timer_start' = now
                /\ ~timer_logged'
                /\ ~timer_done'
       /\ (RenderTick /\ timer_running /\ ~timer_logged
              /\ Elapsed(timer_start) >= timer_total)
             => /\ timer_done'
                /\ AddedTo(history, history', Today, TimerMinutes(timer_total))]_vars

\* A second countdown, started at the second tick after the first one was
\* acknowledged, has expired and committed its minute on the next day.
C17_Witness ==
    /\ timer_done
    /\ ~timer_running
    /\ timer_start = 2 * TickMs
    /\ timer_total = timer_min
    /\ Entry(history, Day1) \in {1, 6}
    /\ Entry(history, Day2) = 1

(* ------------------------------- C18 ----------------------------------- *)
\* C18: q while the timer runs (the stopwatch does not) leaves the loop
\* without a commit: neither the history mapping nor the history file is
\* touched by the quit, however much of the countdown has elapsed; a quit
\* changes the history only when the stopwatch is running.
C18_QuitWithTimerRunning ==
    [][/\ (pc = "poll" /\ pc' = "shutdown" /\ timer_running)
             => /\ ~stopwatch_running
                /\ history' = history
                /\ history_file' = history_file
                /\ save_result' = "none"
       /\ (pc = "poll" /\ pc' = "shutdown" /\ history' # history)
             => stopwatch_running]_vars

\* q was pressed 91.5 s into a running countdown of one minute whose expiry
\* no frame had drawn yet; the history is the one loaded at startup.
C18_Witness ==
    /\ pc = "shutdown"
    /\ timer_running
    /\ timer_total = timer_min
    /\ now - timer_start = 3 * TickMs
    /\ history = LoadedHistory(JsonFile(StoredHistory))

(* ------------------------------- C19 ----------------------------------- *)
\* What a frame drawn at the current clock would leave untouched on the
\* stopwatch and timer pages: the display of a running stopwatch is the one
\* its elapsed time gives, and a running timer shows its remaining time and
\* is not due to expire.  (Nothing else is written by a frame of these pages,
\* and no frame writes anything on another page than the one shown.)
FrameSettled ==
    /\ (header_page_index = 0 /\ stopwatch_running)
          => stopwatch_display = stopwatch_format(Elapsed(stopwatch_start))
    /\ (header_page_index = 1 /\ timer_running)
          => /\ timer_display =
                    format_duration(Remaining(Elapsed(timer_start), timer_total))
             /\ ~Expired(Remaining(Elapsed(timer_start), timer_total),
                         timer_logged)

\* C19: after a render tick, a second render tick with no key event and no
\* clock advance in between changes nothing: the stopwatch and timer displays
\* are already the ones the clock gives, an expired countdown is already Done
\* and logged (no second commit, so history and the persisted mapping stay),
\* and the history offset is a fixpoint of the clamp for the same height.
C19_RenderIdempotent ==
    [][RenderTick
          => /\ FrameSettled'
             /\ header_page_index' = header_page_index
             /\ header_page_index = 2
                   => \A available_rows \in 0..MaxRows :
                         history_offset' =
                             ClampOffset(history_offset,
                                         Cardinality(DOMAIN history),
                                         available_rows)
                         => ClampOffset(history_offset',
                                        Cardinality(DOMAIN history'),
                                        available_rows) = history_offset']_vars

\* The frame that found the countdown expired has been drawn: the timer is
\* Done and logged with its one commit, and the same frame drawn again would
\* find timer_running false.
C19_Witness ==
    /\ pc = "poll"
    /\ header_page_index = 1
    /\ timer_done /\ timer_logged /\ ~timer_running
    /\ timer_display = "00:00.00"
    /\ countdown_commits = 1
    /\ now = 2 * TickMs

(* ------------------------------- C20 ----------------------------------- *)
\* C20: the stopwatch and the timer never run at the same time, a running
\* stopwatch keeps the page at index 0 and a running timer keeps it at 1.
C20_RunningSessionPinsPage ==
    /\ ~(stopwatch_running /\ timer_running)
    /\ stopwatch_running => header_page_index = 0
    /\ timer_running => header_page_index = 1

\* The timer has been running for three ticks, with keys dispatched since.
C20_Witness ==
    /\ pc = "render"
    /\ timer_running
    /\ ~stopwatch_running
    /\ header_page_index = 1
    /\ now - timer_start = 3 * TickMs
    /\ timer_total = CONFIG_TIMER_MAX * timer_min

(* ------------------------------- C21 ----------------------------------- *)
\* C21: a frame drawn while the timer runs with its elapsed time at or past
\* total_duration makes the timer Done and commits total_duration/60 minutes
\* to today's entry; and as long as the loop keeps iterating, a timer that is
\* running past its expiry does not stay running: it becomes Done, or is
\* stopped by space, or the loop ends.
C21_ExpiryIsDetected ==
    /\ [][(RenderTick /\ timer_running /\ Elapsed(timer_start) >= timer_total)
             => /\ header_page_index = 1
                /\ timer_done'
                /\ ~timer_running'
                /\ timer_logged'
                /\ countdown_commits' = countdown_commits + 1
                /\ AddedTo(history, history', Today,
                           TimerMinutes(timer_total))]_vars
    /\ (timer_running /\ Elapsed(timer_start) >= timer_total)
          ~> (~timer_running \/ pc \notin {"render", "poll"})

\* The countdown of one minute started at the first tick is Done, the frame
\* that found it expired having committed its minute two ticks later.
C21_Witness ==
    /\ pc = "poll"
    /\ header_page_index = 1
    /\ timer_done /\ ~timer_running
    /\ timer_total = timer_min
    /\ timer_start = TickMs
    /\ now = 3 * TickMs
    /\ countdown_commits = 1
    /\ Entry(history, Day2) = 1

(* ------------------------------- C22 ----------------------------------- *)
\* C22: in every reachable state timer_running and timer_done are not both
\* true, timer_done implies timer_logged, and timer_running implies not
\* timer_logged.
C22_TimerFlagsConsistent ==
    /\ ~(timer_running /\ timer_done)
    /\ timer_done => timer_logged
    /\ timer_running => ~timer_logged

\* A countdown started at the second tick is running with logged clear, a
\* minute having been committed before: the state the loop is in after a
\* first countdown expired, was logged and was acknowledged.
C22_Witness ==
    /\ timer_running
    /\ ~timer_logged
    /\ ~timer_done
    /\ timer_start = 2 * TickMs
    /\ header_page_index = 1
    /\ Entry(history, Day1) \in {1, 6}

====
